---------------------------- MODULE Spec2Model ----------------------------
(* A model of the signalling transport of peerjs (src/lib/serverconnection.ts): *)
(* the chained XHR poll request (HttpRequestLongPoll), the poll transport       *)
(* (HttpRequest), the resilient channel (ServerConnection), and the close       *)
(* timeout bookkeeping of BaseConnection (src/unnamed/part_000).                *)
(*                                                                              *)
(* JavaScript is single threaded: every action below is one callback or one     *)
(* public method run to completion.                                             *)
EXTENDS Integers, Sequences, FiniteSets, TLC

(***************************************************************************)
(* Bounds of the model                                                     *)
(***************************************************************************)
\* highest chain position (streamIndex) ever issued
MaxStream == 1
\* longest outbound queue explored
MaxQueue == 2
\* most messages in a final response stream of the stream specification
MaxMsgs == 4
\* most timers BaseConnection arms in one run
MaxTimers == 3

(***************************************************************************)
(* Values                                                                  *)
(***************************************************************************)
\* SocketEventType
Message == "message"
Disconnected == "disconnected"
Error == "error"

NL == "\n"
\* the two JSON texts a server line can hold
ObjText == <<"{", "}">>
ArrText == <<"[", "]">>
\* a line that is not JSON however long the stream grows
BadText == <<"{", "]">>

\* ids given to start(); "" is the falsy id
Ids == {"", "p1"}
Tokens == {"t1"}
\* outbound data; type "" stands for a missing (falsy) type field
Datas == {[type |-> ""], [type |-> "OFFER"]}

None == "none"
WS == "ws"
HTTP == "http"

VARIABLES
  currentConnection,   \* ServerConnection._currentConnection: None, WS or HTTP
  socketOpenTimeout,   \* ServerConnection._socketOpenTimeout is non-null
  socketTimer,         \* the host still holds the socket-open timer
  serverId,            \* ServerConnection._serverId
  serverToken,         \* ServerConnection._serverToken
  wsDisconnected,      \* Socket._disconnected of the primary
  http,                \* the fields of the fallback HttpRequest
  reqs,                \* the HttpRequestLongPoll objects, by streamIndex
  delivered,           \* events the channel's listeners got in the last step
  emitted,             \* events the HttpRequest emitted in the last step
  posted,              \* send requests (POST) issued in the last step
  switches,            \* calls of _startHttp made by the last step
  logged,              \* _startXhrStream caught an exception in the last step
  lastOp,              \* the operation the last step ran, and its argument
  streamOut,           \* every Message a stream run emitted, in order
  conn,                \* the fields of a BaseConnection
  closeTimers,         \* ids of the close timers the host still holds
  nextTimerId,         \* next id setTimeout hands out
  lastRet,             \* what the last setCloseTimeout returned
  closeCalls           \* close() invocations made by the last step

scVars == <<currentConnection, socketOpenTimeout, socketTimer, serverId,
            serverToken, wsDisconnected>>
httpVars == <<http, reqs>>
obsVars == <<delivered, emitted, posted, switches, logged, lastOp>>
bcVars == <<conn, closeTimers, nextTimerId, lastRet, closeCalls>>
vars == <<scVars, httpVars, obsVars, streamOut, bcVars>>

(***************************************************************************)
(* Text: String.split("\n") and JSON.parse                                 *)
(***************************************************************************)
\* text.split("\n"): the lines of text, the last one "" when text ends in \n
RECURSIVE SplitFrom(_, _, _)
SplitFrom(text, i, cur) ==
  IF i > Len(text) THEN <<cur>>
  ELSE IF text[i] = NL THEN <<cur>> \o SplitFrom(text, i + 1, <<>>)
  ELSE SplitFrom(text, i + 1, Append(cur, text[i]))

Split(text) == SplitFrom(text, 1, <<>>)

\* messages[i] of JavaScript (0-based); "undefined" past the end
Undefined == <<"undefined">>
At(messages, i) ==
  IF i >= 0 /\ i < Len(messages) THEN messages[i + 1] ELSE Undefined

\* JSON.parse(line) returns (does not throw). The lines of the model are the
\* texts {} and [], their proper prefixes, the empty line and undefined;
\* of these JSON.parse accepts the two complete texts only.
JsonParses(line) == line \in {ObjText, ArrText}

\* the value JSON.parse(line) returns
JsonParse(line) == IF line = ObjText THEN "obj" ELSE "arr"

\* JavaScript truthiness of a line: undefined and "" are falsy
Truthy(line) == line # Undefined /\ line # <<>>


(***************************************************************************)
(* HttpRequestLongPoll: one poll request and its XMLHttpRequest            *)
(***************************************************************************)
Positions == 0 .. MaxStream

\* a position of the chain no request was constructed for yet; emittedAt is
\* the history of the request: the offsets of the lines it emitted, in order
NoRequest ==
  [created |-> FALSE, rs |-> 0, sent |-> FALSE, status |-> 0, body |-> <<>>,
   len |-> 0, prev |-> FALSE, openTimer |-> FALSE, index |-> 1,
   buffer |-> <<>>, emittedAt |-> <<>>]

\* new HttpRequestLongPoll(streamIndex, url): index = 1, buffer = [],
\* no previousRequest, a fresh XMLHttpRequest (readyState 0);
\* body is what the server will have written when the response is complete
NewRequest(body) == [NoRequest EXCEPT !.created = TRUE, !.body = body]

\* XMLHttpRequest.responseText of request n: what has arrived so far
ResponseText(rq, n) == SubSeq(rq[n].body, 1, rq[n].len)

\* getMessages()
GetMessages(rq, n) == Split(ResponseText(rq, n))

\* isSuccess()
IsSuccess(rq, n) ==
  rq[n].rs > 2 /\ rq[n].status = 200 /\ ResponseText(rq, n) # <<>>

\* needsClearPreviousRequest(); previousRequest of n is the request n - 1
NeedsClearPreviousRequest(rq, n) ==
  \/ rq[n].rs = 2 /\ rq[n].prev
  \/ rq[n].prev /\ rq[n - 1].rs < 2

(***************************************************************************)
(* HttpRequest._handleStream                                               *)
(* A transport state ts is [h: the HttpRequest fields, rq: the requests,   *)
(* out: the events emitted so far in this step, posts: the requests send   *)
(* issued in this step, logged: an exception was caught and logged in this *)
(* step].                                                                  *)
(***************************************************************************)
Emit(ts, ev) == [ts EXCEPT !.out = Append(@, ev)]

MsgEvent(value) == [type |-> Message, arg |-> value]
DisconnectedEvent == [type |-> Disconnected, arg |-> ""]
ErrorEvent == [type |-> Error, arg |-> "Invalid message"]

\* emit(Message, JSON.parse(line)) for the line at offset index of request n
EmitLine(ts, n, index, line) ==
  Emit([ts EXCEPT !.rq[n].emittedAt = Append(@, index)],
       MsgEvent(JsonParse(line)))

\* mutant: the drain loop goes on after a buffered line that fails to parse
RECURSIVE DrainBuffer_SkipsFailed(_, _, _)
DrainBuffer_SkipsFailed(ts, n, messages) ==
  IF ts.rq[n].buffer = <<>> THEN ts
  ELSE LET index == Head(ts.rq[n].buffer)
           popped == [ts EXCEPT !.rq[n].buffer = Tail(@)]
           bufferedMessage == At(messages, index)
       IN IF JsonParses(bufferedMessage)
          THEN DrainBuffer_SkipsFailed(
                 EmitLine(popped, n, index, bufferedMessage), n, messages)
          ELSE [DrainBuffer_SkipsFailed(popped, n, messages)
                  EXCEPT !.rq[n].buffer = <<index>> \o @]

\* the while loop over the buffered indices
RECURSIVE DrainBuffer(_, _, _)
DrainBuffer(ts, n, messages) ==
  IF ts.rq[n].buffer = <<>> THEN ts
  ELSE LET index == Head(ts.rq[n].buffer)
           popped == [ts EXCEPT !.rq[n].buffer = Tail(@)]
           bufferedMessage == At(messages, index)
       IN IF JsonParses(bufferedMessage)
          THEN DrainBuffer(EmitLine(popped, n, index, bufferedMessage),
                           n, messages)
          ELSE [popped EXCEPT !.rq[n].buffer = <<index>> \o @]

\* mutant: the tail line is buffered one line early
ReadTail_Early(ts, n, messages) ==
  LET message == At(messages, ts.rq[n].index)
      advanced == [ts EXCEPT !.rq[n].index = @ + 1]
  IN IF ~Truthy(message) THEN ts
     ELSE IF advanced.rq[n].index + 1 = Len(messages)
          THEN [advanced EXCEPT
                  !.rq[n].buffer = Append(@, advanced.rq[n].index - 1)]
          ELSE IF JsonParses(message)
               THEN EmitLine(advanced, n, ts.rq[n].index, message)
               ELSE advanced

\* the part after the loop: the line at httpRequest.index
ReadTail(ts, n, messages) ==
  LET message == At(messages, ts.rq[n].index)
      advanced == [ts EXCEPT !.rq[n].index = @ + 1]
  IN IF ~Truthy(message) THEN ts
     ELSE IF advanced.rq[n].index = Len(messages)
          THEN [advanced EXCEPT
                  !.rq[n].buffer = Append(@, advanced.rq[n].index - 1)]
          ELSE IF JsonParses(message)
               THEN EmitLine(advanced, n, ts.rq[n].index, message)
               ELSE advanced

HandleStream(ts, n) ==
  LET messages == GetMessages(ts.rq, n)
  IN ReadTail(DrainBuffer(ts, n, messages), n, messages)

(***************************************************************************)
(* XMLHttpRequest.abort() and the onreadystatechange handler               *)
(***************************************************************************)
RECURSIVE Abort(_, _), OnReadyStateChange(_, _)

\* clearPreviousRequest()
ClearPreviousRequest(ts, n) ==
  IF ~ts.rq[n].prev THEN ts
  ELSE [Abort(ts, n - 1) EXCEPT !.rq[n].prev = FALSE]

\* the onreadystatechange handler the constructor installs
OnReadyStateChange(ts, n) ==
  IF NeedsClearPreviousRequest(ts.rq, n) THEN ClearPreviousRequest(ts, n)
  ELSE IF IsSuccess(ts.rq, n) THEN HandleStream(ts, n)
  ELSE ts

\* abort(): XMLHttpRequest.abort(). A request in flight ends as a network
\* error (readyState 4, status 0, empty responseText), readystatechange is
\* fired synchronously, and the state is then reset to 0 (UNSENT).
Abort(ts, n) ==
  IF ts.rq[n].sent
  THEN LET failed == [ts EXCEPT !.rq[n].rs = 4, !.rq[n].sent = FALSE,
                                !.rq[n].status = 0, !.rq[n].len = 0]
       IN [OnReadyStateChange(failed, n) EXCEPT !.rq[n].rs = 0]
  ELSE IF ts.rq[n].rs = 4
       THEN [ts EXCEPT !.rq[n].rs = 0, !.rq[n].status = 0, !.rq[n].len = 0]
       ELSE ts

(***************************************************************************)
(* HttpRequest                                                             *)
(***************************************************************************)
NoPoll == -1

\* the fields of a constructed HttpRequest
HttpInit ==
  [disconnected |-> TRUE, id |-> "", httpUrl |-> <<>>, timeout |-> FALSE,
   messagesQueue |-> <<>>, httpRequest |-> NoPoll]

\* mutant: onError leaves the idle timeout armed
OnError_KeepsTimeout(ts) == Emit(ts, DisconnectedEvent)

\* the onError handler _startXhrStream gives every request
OnError(ts) == Emit([ts EXCEPT !.h.timeout = FALSE], DisconnectedEvent)

\* _setHTTPTimeout(): arms the idle timeout. The timer it replaces has fired
\* or was never armed, so one flag stands for handle and timer.
SetHTTPTimeout(ts) == [ts EXCEPT !.h.timeout = TRUE]

\* HttpRequestLongPoll.send(): open, send, and the open timeout.
\* throws: "open" or "send" when that call of the XMLHttpRequest throws.
PollSend(ts, n, throws) ==
  IF throws = "open" THEN ts
  ELSE IF throws = "send" THEN [ts EXCEPT !.rq[n].rs = 1]
  ELSE [ts EXCEPT !.rq[n].rs = 1, !.rq[n].sent = TRUE,
                  !.rq[n].openTimer = TRUE]

\* _startXhrStream(streamIndex)
StartXhrStream(ts, streamIndex, body, throws) ==
  LET made == [ts EXCEPT !.rq[streamIndex] = NewRequest(body),
                         !.h.httpRequest = streamIndex]
  IN IF throws = "no"
     THEN SetHTTPTimeout(PollSend(made, streamIndex, throws))
     ELSE [PollSend(made, streamIndex, throws) EXCEPT !.logged = TRUE]

\* mutant: start() tests only the disconnected flag
HttpStart_Resumable(ts, id, token, body, throws) ==
  IF ~ts.h.disconnected THEN ts
  ELSE LET known == [ts EXCEPT !.h.id = id, !.h.httpUrl = <<id, token>>]
       IN [StartXhrStream(known, 0, body, throws)
             EXCEPT !.h.disconnected = FALSE]

\* start(id, token)
HttpStart(ts, id, token, body, throws) ==
  IF ts.h.httpRequest # NoPoll \/ ~ts.h.disconnected THEN ts
  ELSE LET known == [ts EXCEPT !.h.id = id, !.h.httpUrl = <<id, token>>]
       IN [StartXhrStream(known, 0, body, throws)
             EXCEPT !.h.disconnected = FALSE]

\* data.type.toLowerCase()
ToLowerCase(type) == IF type = "OFFER" THEN "offer" ELSE type

\* JSON.stringify(data)
Stringify(data) == <<"{", "type", ":", data.type, "}">>

\* mutant: send puts the message at the head of the queue
HttpSend_Unshift(ts, data) ==
  IF ts.h.disconnected THEN ts
  ELSE IF ts.h.id = "" THEN [ts EXCEPT !.h.messagesQueue = <<data>> \o @]
  ELSE IF data.type = "" THEN Emit(ts, ErrorEvent)
  ELSE [ts EXCEPT !.posts =
          Append(@, [url |-> Append(ts.h.httpUrl, ToLowerCase(data.type)),
                     message |-> Stringify(data)])]

\* mutant: send does not test data.type
HttpSend_NoTypeCheck(ts, data) ==
  IF ts.h.disconnected THEN ts
  ELSE IF ts.h.id = "" THEN [ts EXCEPT !.h.messagesQueue = Append(@, data)]
  ELSE [ts EXCEPT !.posts =
          Append(@, [url |-> Append(ts.h.httpUrl, ToLowerCase(data.type)),
                     message |-> Stringify(data)])]

\* send(data)
HttpSend(ts, data) ==
  IF ts.h.disconnected THEN ts
  ELSE IF ts.h.id = "" THEN [ts EXCEPT !.h.messagesQueue = Append(@, data)]
  ELSE IF data.type = "" THEN Emit(ts, ErrorEvent)
  ELSE [ts EXCEPT !.posts =
          Append(@, [url |-> Append(ts.h.httpUrl, ToLowerCase(data.type)),
                     message |-> Stringify(data)])]

\* _cleanup()
Cleanup(ts) ==
  LET stopped == [ts EXCEPT !.h.timeout = FALSE]
  IN IF stopped.h.httpRequest # NoPoll
     THEN Abort(stopped, stopped.h.httpRequest)
     ELSE stopped

\* close()
HttpClose(ts) ==
  IF ts.h.disconnected THEN ts
  ELSE [Cleanup(ts) EXCEPT !.h.disconnected = TRUE]

\* the callback of _setHTTPTimeout
IdleTimeoutFired(ts, body, throws) ==
  LET oldHttp == ts.h.httpRequest
      fired == [ts EXCEPT !.h.timeout = FALSE]
      next == StartXhrStream(fired, oldHttp + 1, body, throws)
  IN [next EXCEPT !.rq[next.h.httpRequest].prev = TRUE]

\* the callback of the open timeout armed in HttpRequestLongPoll.send()
OpenTimeoutFired(ts, n) ==
  LET fired == [ts EXCEPT !.rq[n].openTimer = FALSE]
  IN IF fired.rq[n].rs < 2 THEN OnError(Abort(fired, n)) ELSE fired

\* the XMLHttpRequest of request n receives the response headers
XhrHeaders(ts, n, status) ==
  OnReadyStateChange([ts EXCEPT !.rq[n].rs = 2, !.rq[n].status = status], n)

\* more of the response body arrives: responseText grows to newLen
XhrProgress(ts, n, newLen) ==
  OnReadyStateChange([ts EXCEPT !.rq[n].rs = 3, !.rq[n].len = newLen], n)

\* the response is complete
XhrDone(ts, n) ==
  OnReadyStateChange([ts EXCEPT !.rq[n].rs = 4, !.rq[n].sent = FALSE], n)

\* the request fails: readystatechange, then the error event
XhrError(ts, n) ==
  OnError(OnReadyStateChange(
    [ts EXCEPT !.rq[n].rs = 4, !.rq[n].sent = FALSE, !.rq[n].status = 0,
               !.rq[n].len = 0], n))

(***************************************************************************)
(* ServerConnection                                                        *)
(* A channel state cs is [cur, timeout, timer, id, token, wsDisconnected,  *)
(* ts: the transport state of the fallback, emitted: every event a         *)
(* transport emitted in this step with _currentConnection at that moment   *)
(* and whether it was forwarded, delivered: the events forwarded,          *)
(* switches: the calls of _startHttp in this step].                        *)
(***************************************************************************)
\* this.emit(event, ...args) of the channel itself: its listeners get it
ChannelEmit(cs, src, ev) ==
  [cs EXCEPT !.delivered = Append(@, [src |-> src, ev |-> ev])]

\* records that transport src emitted ev, forwarded to the listeners or not
Note(cs, src, ev, fwd) ==
  [cs EXCEPT !.emitted =
     Append(@, [src |-> src, ev |-> ev, cur |-> cs.cur, fwd |-> fwd])]

\* mutant: the fallback's events are forwarded whatever is current
HttpForwards_Always(cs) == TRUE

\* the test of _interceptedHttpRequestEmit
HttpForwards(cs) == cs.cur = HTTP

\* mutant: the primary's events are forwarded whatever is current
SocketForwards_Always(cs) == TRUE

\* the test of the last line of _interceptedSocketEmit
SocketForwards(cs) == cs.cur = WS

\* _interceptedHttpRequestEmit(event, ...args)
InterceptedHttpRequestEmit(cs, ev) ==
  IF HttpForwards(cs)
  THEN ChannelEmit(Note(cs, HTTP, ev, TRUE), HTTP, ev)
  ELSE Note(cs, HTTP, ev, FALSE)

\* the HttpRequest emits the events evs, one after the other
RECURSIVE HttpEmits(_, _)
HttpEmits(cs, evs) ==
  IF evs = <<>> THEN cs
  ELSE HttpEmits(InterceptedHttpRequestEmit(cs, Head(evs)), Tail(evs))

\* a method or callback of the HttpRequest ran and left it as ts: what it
\* emitted meanwhile went through the intercepted emit
HttpCall(cs, ts) ==
  HttpEmits([cs EXCEPT !.ts = ts],
            SubSeq(ts.out, Len(cs.ts.out) + 1, Len(ts.out)))

\* Socket.start(id, token) of the primary
SocketStart(cs) == [cs EXCEPT !.wsDisconnected = FALSE]

\* Socket.close() of the primary
SocketClose(cs) == [cs EXCEPT !.wsDisconnected = TRUE]

\* _stopSocketOpenTimeout()
StopSocketOpenTimeout(cs) == [cs EXCEPT !.timer = FALSE, !.timeout = FALSE]

\* _startSocketOpenTimeout()
StartSocketOpenTimeout(cs) ==
  [StopSocketOpenTimeout(cs) EXCEPT !.timer = TRUE, !.timeout = TRUE]

\* mutant: _startSocket does not close the fallback
StartSocket_KeepsHttp(cs) ==
  SocketStart(StartSocketOpenTimeout([cs EXCEPT !.cur = WS]))

\* _startSocket()
StartSocket(cs) ==
  LET cleared == [cs EXCEPT !.cur = None]
      closed == HttpCall(cleared, HttpClose(cleared.ts))
      primary == [closed EXCEPT !.cur = WS]
  IN SocketStart(StartSocketOpenTimeout(primary))

\* mutant: _startHttp leaves the open timeout handle set
StartHttp_KeepsTimeout(cs, body, throws) ==
  LET cleared == [cs EXCEPT !.cur = None, !.switches = @ + 1]
      closed == SocketClose(cleared)
      fallback == [closed EXCEPT !.cur = HTTP]
  IN HttpCall(fallback,
              HttpStart(fallback.ts, fallback.id, fallback.token, body, throws))

\* _startHttp()
StartHttp(cs, body, throws) ==
  LET cleared == [cs EXCEPT !.cur = None, !.switches = @ + 1]
      closed == SocketClose(cleared)
      fallback == StopSocketOpenTimeout([closed EXCEPT !.cur = HTTP])
  IN HttpCall(fallback,
              HttpStart(fallback.ts, fallback.id, fallback.token, body, throws))

\* mutant: a Disconnected of the primary never starts the fallback
InterceptedSocketEmit_NoFailover(cs, ev, body, throws) ==
  LET kept == IF cs.timeout /\ ev.type = Message
              THEN StopSocketOpenTimeout(cs) ELSE cs
  IN IF SocketForwards(kept)
     THEN ChannelEmit(Note(kept, WS, ev, TRUE), WS, ev)
     ELSE Note(kept, WS, ev, FALSE)

\* _interceptedSocketEmit(event, ...args)
InterceptedSocketEmit(cs, ev, body, throws) ==
  IF cs.timeout /\ ev.type = Disconnected
  THEN StartHttp(Note(cs, WS, ev, FALSE), body, throws)
  ELSE LET kept == IF cs.timeout /\ ev.type = Message
                   THEN StopSocketOpenTimeout(cs) ELSE cs
       IN IF SocketForwards(kept)
          THEN ChannelEmit(Note(kept, WS, ev, TRUE), WS, ev)
          ELSE Note(kept, WS, ev, FALSE)

\* start(id, token)
ChannelStart(cs, id, token) ==
  StartSocket([cs EXCEPT !.id = id, !.token = token])

\* send(data); Socket.send of the primary changes nothing the model holds
ChannelSend(cs, data) ==
  IF cs.cur = HTTP THEN HttpCall(cs, HttpSend(cs.ts, data)) ELSE cs

\* mutant: close() leaves the open timeout armed
ChannelClose_KeepsTimeout(cs) ==
  LET closed == IF cs.cur = WS THEN SocketClose(cs)
                ELSE IF cs.cur = HTTP THEN HttpCall(cs, HttpClose(cs.ts))
                     ELSE cs
  IN [closed EXCEPT !.cur = None]

\* close()
ChannelClose(cs) ==
  LET stopped == StopSocketOpenTimeout(cs)
      closed == IF stopped.cur = WS THEN SocketClose(stopped)
                ELSE IF stopped.cur = HTTP
                     THEN HttpCall(stopped, HttpClose(stopped.ts))
                     ELSE stopped
  IN [closed EXCEPT !.cur = None]

\* the callback of _startSocketOpenTimeout: the handle stays set until
\* _startHttp resets it
SocketOpenTimeoutFired(cs, body, throws) ==
  StartHttp([cs EXCEPT !.timer = FALSE], body, throws)

(***************************************************************************)
(* The channel with its two transports: state, inputs and actions          *)
(***************************************************************************)
\* what the server writes to a poll of the channel specification: a padding
\* line, then one message
PollBodies == {<<NL>> \o ObjText \o <<NL>>}
Throws == {"no", "open", "send"}
Statuses == {200, 500}
SocketEvents == {MsgEvent("obj"), DisconnectedEvent}

\* the transport state and the channel state at the start of a step
TS == [h |-> http, rq |-> reqs, out |-> <<>>, posts |-> <<>>, logged |-> FALSE]
CS ==
  [cur |-> currentConnection, timeout |-> socketOpenTimeout,
   timer |-> socketTimer, id |-> serverId, token |-> serverToken,
   wsDisconnected |-> wsDisconnected, ts |-> TS, emitted |-> <<>>,
   delivered |-> <<>>, switches |-> 0]

\* the step leaves the channel as cs
Becomes(cs, op, arg) ==
  /\ currentConnection' = cs.cur
  /\ socketOpenTimeout' = cs.timeout
  /\ socketTimer' = cs.timer
  /\ serverId' = cs.id
  /\ serverToken' = cs.token
  /\ wsDisconnected' = cs.wsDisconnected
  /\ http' = cs.ts.h
  /\ reqs' = cs.ts.rq
  /\ emitted' = cs.emitted
  /\ delivered' = cs.delivered
  /\ posted' = cs.ts.posts
  /\ switches' = cs.switches
  /\ logged' = cs.ts.logged
  /\ lastOp' = [op |-> op, arg |-> arg]
  /\ UNCHANGED <<streamOut, bcVars>>

BcInit ==
  /\ conn = [open |-> FALSE, reconnectable |-> FALSE, reconnectTimeoutId |-> 0]
  /\ closeTimers = {}
  /\ nextTimerId = 1
  /\ lastRet = "none"
  /\ closeCalls = 0

ChannelIdle ==
  /\ currentConnection = None
  /\ socketOpenTimeout = FALSE
  /\ socketTimer = FALSE
  /\ serverId = ""
  /\ serverToken = ""
  /\ wsDisconnected = TRUE
  /\ http = HttpInit
  /\ delivered = <<>>
  /\ emitted = <<>>
  /\ posted = <<>>
  /\ switches = 0
  /\ logged = FALSE
  /\ lastOp = [op |-> "new", arg |-> ""]

Init ==
  /\ ChannelIdle
  /\ reqs = [n \in Positions |-> NoRequest]
  /\ streamOut = <<>>
  /\ BcInit

Start(id, token) == Becomes(ChannelStart(CS, id, token), "start", id)

\* sends that would make the queue longer than MaxQueue are left out
Send(data) ==
  /\ (currentConnection = HTTP /\ ~http.disconnected /\ http.id = "")
       => Len(http.messagesQueue) < MaxQueue
  /\ Becomes(ChannelSend(CS, data), "send", data)

Close == Becomes(ChannelClose(CS), "close", "")

SocketOpenTimeout(body, throws) ==
  /\ socketTimer
  /\ Becomes(SocketOpenTimeoutFired(CS, body, throws), "socketOpenTimeout", "")

SocketEmits(ev, body, throws) ==
  Becomes(InterceptedSocketEmit(CS, ev, body, throws), "socketEmit", ev)

\* the idle timeout (25 s) is armed right after the open timeout (5 s) of
\* the same request, so the host runs it after that one
IdleTimeout(body, throws) ==
  /\ http.timeout
  /\ http.httpRequest < MaxStream
  /\ ~reqs[http.httpRequest].openTimer
  /\ Becomes(HttpCall(CS, IdleTimeoutFired(TS, body, throws)), "idleTimeout", "")

OpenTimeout(n) ==
  /\ reqs[n].openTimer
  /\ Becomes(HttpCall(CS, OpenTimeoutFired(TS, n)), "openTimeout", n)

Headers(n, status) ==
  /\ reqs[n].sent /\ reqs[n].rs = 1
  /\ Becomes(HttpCall(CS, XhrHeaders(TS, n, status)), "xhr", n)

Progress(n, newLen) ==
  /\ reqs[n].sent /\ reqs[n].rs \in {2, 3}
  /\ newLen > reqs[n].len
  /\ Becomes(HttpCall(CS, XhrProgress(TS, n, newLen)), "xhr", n)

Done(n) ==
  /\ reqs[n].sent /\ reqs[n].rs \in {2, 3}
  /\ Becomes(HttpCall(CS, XhrDone(TS, n)), "xhr", n)

NetError(n) ==
  /\ reqs[n].sent
  /\ Becomes(HttpCall(CS, XhrError(TS, n)), "xhrError", n)

Next ==
  \/ \E id \in Ids, token \in Tokens : Start(id, token)
  \/ \E data \in Datas : Send(data)
  \/ Close
  \/ \E body \in PollBodies, throws \in Throws : SocketOpenTimeout(body, throws)
  \/ \E ev \in SocketEvents, body \in PollBodies, throws \in Throws :
       SocketEmits(ev, body, throws)
  \/ \E body \in PollBodies, throws \in Throws : IdleTimeout(body, throws)
  \/ \E n \in Positions : OpenTimeout(n)
  \/ \E n \in Positions, status \in Statuses : Headers(n, status)
  \/ \E n \in Positions : \E newLen \in 1 .. Len(reqs[n].body) :
       Progress(n, newLen)
  \/ \E n \in Positions : Done(n)
  \/ \E n \in Positions : NetError(n)

Spec == Init /\ [][Next]_vars

(***************************************************************************)
(* The HttpRequest on its own, driven by its public methods                *)
(***************************************************************************)
HttpRequestStart(id, token, body, throws) ==
  Becomes(HttpCall(CS, HttpStart(TS, id, token, body, throws)),
          "httpStart", id)

\* sends that would make the queue longer than MaxQueue are left out
HttpRequestSend(data) ==
  /\ (~http.disconnected /\ http.id = "") => Len(http.messagesQueue) < MaxQueue
  /\ Becomes(HttpCall(CS, HttpSend(TS, data)), "httpSend", data)

HttpRequestClose == Becomes(HttpCall(CS, HttpClose(TS)), "httpClose", "")

HttpNext ==
  \/ \E id \in Ids, token \in Tokens, body \in PollBodies, throws \in Throws :
       HttpRequestStart(id, token, body, throws)
  \/ \E data \in Datas : HttpRequestSend(data)
  \/ HttpRequestClose
  \/ \E body \in PollBodies, throws \in Throws : IdleTimeout(body, throws)
  \/ \E n \in Positions : OpenTimeout(n)
  \/ \E n \in Positions, status \in Statuses : Headers(n, status)
  \/ \E n \in Positions : \E newLen \in 1 .. Len(reqs[n].body) :
       Progress(n, newLen)
  \/ \E n \in Positions : Done(n)
  \/ \E n \in Positions : NetError(n)

\* a constructed HttpRequest that no channel owns
HttpOnlyInit == Init

SpecHttp == HttpOnlyInit /\ [][HttpNext]_vars

(***************************************************************************)
(* One poll request fed growing snapshots of a complete stream             *)
(***************************************************************************)
\* the complete streams of k lines, each ended by a newline; a server may
\* write a line that is not JSON
RECURSIVE StreamsOf(_)
StreamsOf(k) ==
  IF k = 0 THEN {<<>>}
  ELSE {s \o m \o <<NL>> : s \in StreamsOf(k - 1),
                           m \in {ObjText, ArrText, BadText}}

StreamBodies == UNION {StreamsOf(k) : k \in 1 .. MaxMsgs}

\* the values of the Message events among evs
RECURSIVE MessageValues(_)
MessageValues(evs) ==
  IF evs = <<>> THEN <<>>
  ELSE IF Head(evs).type = Message
       THEN <<Head(evs).arg>> \o MessageValues(Tail(evs))
       ELSE MessageValues(Tail(evs))

\* a request that is loading a 200 response, nothing received yet
StreamInit ==
  /\ ChannelIdle
  /\ \E body \in StreamBodies :
       reqs = [n \in Positions |->
                 IF n = 0
                 THEN [NewRequest(body) EXCEPT !.rs = 3, !.sent = TRUE,
                                               !.status = 200]
                 ELSE NoRequest]
  /\ streamOut = <<>>
  /\ BcInit

\* the response grows to newLen characters and readystatechange fires
StreamSnapshot(newLen) ==
  /\ newLen > reqs[0].len
  /\ LET ts == XhrProgress(TS, 0, newLen)
     IN /\ reqs' = ts.rq
        /\ streamOut' = streamOut \o MessageValues(ts.out)
        /\ lastOp' = [op |-> "snapshot", arg |-> newLen]
  /\ UNCHANGED <<scVars, http, delivered, emitted, posted, switches, logged,
                 bcVars>>

StreamNext == \E newLen \in 1 .. Len(reqs[0].body) : StreamSnapshot(newLen)

SpecStream == StreamInit /\ [][StreamNext]_vars

(***************************************************************************)
(* BaseConnection (src/unnamed/part_000)                                   *)
(***************************************************************************)
\* close() of the concrete connection: the connection is no longer open
ConnClose(c) == [c EXCEPT !.open = FALSE]

\* the test at the top of setCloseTimeout()
CloseTimeoutRefused(c) == ~c.reconnectable \/ ~c.open

\* mutant: setCloseTimeout arms a timer on every call
ArmsCloseTimeout_Always(c) == TRUE

\* this.reconnectTimeoutId || (this.reconnectTimeoutId = setTimeout(...))
ArmsCloseTimeout(c) == c.reconnectTimeoutId = 0

\* mutant: the timeout callback also tests reconnectable
CloseTimeoutCloses_Reconnectable(c) == c.open /\ c.reconnectable

\* the test of the timeout callback: this.open && this.close()
CloseTimeoutCloses(c) == c.open

BcBecomes(c, timers, nextId, ret, calls, op) ==
  /\ conn' = c
  /\ closeTimers' = timers
  /\ nextTimerId' = nextId
  /\ lastRet' = ret
  /\ closeCalls' = calls
  /\ lastOp' = [op |-> op, arg |-> ""]
  /\ UNCHANGED <<scVars, httpVars, delivered, emitted, posted, switches,
                 logged, streamOut>>

\* setCloseTimeout()
SetCloseTimeout ==
  IF CloseTimeoutRefused(conn)
  THEN BcBecomes(conn, closeTimers, nextTimerId, "false", 0, "setCloseTimeout")
  ELSE IF ArmsCloseTimeout(conn)
       THEN /\ nextTimerId <= MaxTimers
            /\ BcBecomes([conn EXCEPT !.reconnectTimeoutId = nextTimerId],
                         closeTimers \cup {nextTimerId}, nextTimerId + 1,
                         "true", 0, "setCloseTimeout")
       ELSE BcBecomes(conn, closeTimers, nextTimerId, "true", 0,
                      "setCloseTimeout")

\* clearCloseTimeout()
ClearCloseTimeout ==
  BcBecomes([conn EXCEPT !.reconnectTimeoutId = 0],
            closeTimers \ {conn.reconnectTimeoutId}, nextTimerId, "none", 0,
            "clearCloseTimeout")

\* the callback of the close timeout t
CloseTimeout(t) ==
  /\ t \in closeTimers
  /\ IF CloseTimeoutCloses(conn)
     THEN BcBecomes(ConnClose(conn), closeTimers \ {t}, nextTimerId, "none",
                    1, "closeTimeout")
     ELSE BcBecomes(conn, closeTimers \ {t}, nextTimerId, "none", 0,
                    "closeTimeout")

\* the concrete connection opens or closes; the owner sets reconnectable
SetOpen(b) ==
  BcBecomes([conn EXCEPT !.open = b], closeTimers, nextTimerId, "none", 0,
            "setOpen")

SetReconnectable(b) ==
  BcBecomes([conn EXCEPT !.reconnectable = b], closeTimers, nextTimerId,
            "none", 0, "setReconnectable")

BcNext ==
  \/ SetCloseTimeout
  \/ ClearCloseTimeout
  \/ \E t \in closeTimers : CloseTimeout(t)
  \/ \E b \in BOOLEAN : SetOpen(b)
  \/ \E b \in BOOLEAN : SetReconnectable(b)

\* a constructed connection: not open, not reconnectable, no timeout
BaseInit == Init

SpecBase == BaseInit /\ [][BcNext]_vars

(***************************************************************************)
(* Properties of the channel (specification Spec)                          *)
(***************************************************************************)
\* the step that just ran was operation op
Ran(op) == lastOp.op = op

C1_TimeoutStep ==
  Ran("socketOpenTimeout") =>
    /\ switches = 1
    /\ currentConnection = HTTP
    /\ wsDisconnected
    /\ ~socketOpenTimeout /\ ~socketTimer

C1_Stays ==
  (currentConnection = HTTP /\ lastOp'.op # "start") =>
    /\ switches' = 0
    /\ currentConnection' # WS
    /\ currentConnection' = HTTP \/ lastOp'.op = "close"

\* C1: when the socket-open timeout fires, _startHttp runs once: the primary
\* is closed, the fallback becomes _currentConnection and the timeout handle
\* is reset; from then on, until close() or a new start(), no step runs
\* _startHttp again or makes the primary current, whatever either transport
\* emits.
C1_FailoverOnce == [](C1_TimeoutStep) /\ [][C1_Stays]_vars

\* the fallback is current after the open timeout fired
C1_Witness ==
  Ran("socketOpenTimeout") /\ currentConnection = HTTP /\ ~http.disconnected

\* state PrimaryActive: the primary is current and no open timeout is pending
PrimaryActive == currentConnection = WS /\ ~socketOpenTimeout

C2_MessageStep ==
  (lastOp'.op = "socketEmit" /\ lastOp'.arg.type = Message
     /\ socketOpenTimeout) =>
    /\ ~socketOpenTimeout' /\ ~socketTimer'
    /\ currentConnection' = WS
    /\ delivered' = <<[src |-> WS, ev |-> lastOp'.arg]>>
    /\ switches' = 0

C2_Rest ==
  (PrimaryActive /\ lastOp'.op \notin {"start", "close"}) =>
    /\ PrimaryActive'
    /\ switches' = 0
    /\ http'.disconnected
    /\ \A i \in DOMAIN delivered' : delivered'[i].src = WS

\* C2: a Message of the primary while the open timeout is pending resets the
\* timeout and is forwarded; from then on, until close() or a new start(),
\* the channel stays on the primary, _startHttp never runs, the fallback
\* stays disconnected, and every event the listeners get is the primary's.
C2_PrimaryStays ==
  [](PrimaryActive => http.disconnected) /\ [][C2_MessageStep /\ C2_Rest]_vars

\* a request of an earlier fallback emits while the primary is active
C2_Witness ==
  /\ PrimaryActive
  /\ Ran("openTimeout")
  /\ \E i \in DOMAIN emitted : emitted[i].src = HTTP

\* the events of the last step that were forwarded, as the listeners see them
RECURSIVE Forwarded(_)
Forwarded(evs) ==
  IF evs = <<>> THEN <<>>
  ELSE IF Head(evs).fwd
       THEN <<[src |-> Head(evs).src, ev |-> Head(evs).ev]>>
              \o Forwarded(Tail(evs))
       ELSE Forwarded(Tail(evs))

\* C3: an event reaches the listeners only if the transport that emitted it
\* was _currentConnection when it emitted it; an event of the other
\* transport, or one emitted while _currentConnection is null, is swallowed.
C3_OnlyCurrentForwarded ==
  /\ \A i \in DOMAIN emitted :
       /\ emitted[i].fwd => emitted[i].cur = emitted[i].src
       /\ emitted[i].cur # emitted[i].src => ~emitted[i].fwd
  /\ delivered = Forwarded(emitted)

\* the primary emits while the fallback is current, and is swallowed
C3_Witness ==
  \E i \in DOMAIN emitted :
    emitted[i].src = WS /\ emitted[i].cur = HTTP /\ ~emitted[i].fwd

(***************************************************************************)
(* Properties of one poll request's stream (specification SpecStream)      *)
(***************************************************************************)
\* the values of the JSON lines of a complete stream, in order
RECURSIVE ParseLines(_)
ParseLines(lines) ==
  IF lines = <<>> \/ lines = <<<<>>>> THEN <<>>
  ELSE IF JsonParses(Head(lines))
       THEN <<JsonParse(Head(lines))>> \o ParseLines(Tail(lines))
       ELSE ParseLines(Tail(lines))

StreamMessages(body) == ParseLines(Split(body))

\* C4: once the snapshots have grown to the complete stream, the Message
\* events emitted are the messages of the stream, in order, once each.
C4_EmitsFinalStream ==
  reqs[0].len = Len(reqs[0].body) => streamOut = StreamMessages(reqs[0].body)

(***************************************************************************)
(* Properties of the poll transport (specification Spec)                   *)
(***************************************************************************)
\* close() of the HttpRequest has returned on a transport that was started
HttpClosed == http.disconnected /\ http.httpRequest # NoPoll

\* C5: after HttpRequest.close() no idle timeout and no open timeout is
\* pending, no poll request is still in flight, and the transport emits no
\* event.
C5_CloseCancelsAll ==
  HttpClosed =>
    /\ ~http.timeout
    /\ \A n \in Positions : ~reqs[n].openTimer /\ ~reqs[n].sent
    /\ \A i \in DOMAIN emitted : emitted[i].src # HTTP

\* the fallback is current, running, and has no session id
Queueing == currentConnection = HTTP /\ ~http.disconnected /\ http.id = ""

IsPrefix(a, b) == Len(a) <= Len(b) /\ SubSeq(b, 1, Len(a)) = a

C9_SendStep ==
  (lastOp'.op = "send" /\ Queueing) =>
    /\ http'.messagesQueue = Append(http.messagesQueue, lastOp'.arg)
    /\ posted' = <<>>

C9_Frame ==
  /\ IsPrefix(http.messagesQueue, http'.messagesQueue)
  /\ http'.messagesQueue # http.messagesQueue => lastOp'.op = "send"
  /\ posted' # <<>> =>
       /\ lastOp'.op = "send"
       /\ posted' = <<[url |-> Append(http.httpUrl,
                                      ToLowerCase(lastOp'.arg.type)),
                       message |-> Stringify(lastOp'.arg)]>>
       /\ http'.messagesQueue = http.messagesQueue

\* C9: send on a running transport with no session id appends the data to
\* the queue and issues no request; every step leaves the queue a prefix of
\* what it becomes, only send makes it longer, and a request that is issued
\* carries the data of that very send, never a queued message.
C9_QueueOnlyGrows == [][C9_SendStep /\ C9_Frame]_vars

\* two different messages are queued in call order, and a later idle
\* timeout has left them there
C9_Witness ==
  /\ Ran("idleTimeout")
  /\ Len(http.messagesQueue) >= 2
  /\ http.messagesQueue[1] # http.messagesQueue[2]

C10_InvalidStep ==
  (lastOp'.op = "send" /\ currentConnection = HTTP /\ ~http.disconnected
     /\ http.id # "" /\ lastOp'.arg.type = "") =>
    /\ emitted' =
         <<[src |-> HTTP, ev |-> ErrorEvent, cur |-> HTTP, fwd |-> TRUE]>>
    /\ posted' = <<>>
    /\ UNCHANGED httpVars

C10_DisconnectedStep ==
  (lastOp'.op = "send" /\ currentConnection = HTTP /\ http.disconnected) =>
    /\ emitted' = <<>>
    /\ posted' = <<>>
    /\ UNCHANGED httpVars

\* C10: send of data without a type, on a running transport that has a
\* session id, emits one Error event "Invalid message", issues no request
\* and changes no field of the transport; send on a disconnected transport
\* emits nothing and issues no request.
C10_InvalidMessage == [][C10_InvalidStep /\ C10_DisconnectedStep]_vars

\* the Error event of an invalid send
C10_Witness ==
  /\ Ran("send")
  /\ lastOp.arg.type = ""
  /\ Len(emitted) = 1
  /\ emitted[1].ev = ErrorEvent

(***************************************************************************)
(* Properties of the channel, continued (specification Spec)               *)
(***************************************************************************)
\* C6 as stated: a Disconnected of the primary always starts the fallback
\* and is never delivered; a Disconnected that is delivered is the
\* fallback's.
C6_AlwaysRouting ==
  /\ \A i \in DOMAIN delivered :
       delivered[i].ev.type = Disconnected => delivered[i].src = HTTP
  /\ \A i \in DOMAIN emitted :
       (emitted[i].src = WS /\ emitted[i].ev.type = Disconnected) =>
         switches = 1 /\ ~emitted[i].fwd

C6_Step ==
  (lastOp'.op = "socketEmit" /\ lastOp'.arg.type = Disconnected) =>
    IF socketOpenTimeout
    THEN /\ switches' = 1
         /\ currentConnection' = HTTP
         /\ delivered' = <<>>
    ELSE /\ switches' = 0
         /\ currentConnection' = currentConnection
         /\ delivered' = IF currentConnection = WS
                         THEN <<[src |-> WS, ev |-> lastOp'.arg]>>
                         ELSE <<>>

C6_Delivered ==
  \A i \in DOMAIN delivered :
    delivered[i].ev.type = Disconnected =>
      delivered[i].src = HTTP \/ (delivered[i].src = WS /\ PrimaryActive)

\* C6 (amended): a Disconnected of the primary starts the fallback and is
\* not delivered while the open timeout is pending; with no timeout pending
\* it starts nothing, and it is delivered exactly when the primary is
\* current. A Disconnected the listeners get is the fallback's, or the
\* primary's in state PrimaryActive.
C6_RoutingWhilePending == [](C6_Delivered) /\ [][C6_Step]_vars

\* the listeners get a Disconnected of the primary
C6_Witness ==
  /\ Ran("socketEmit")
  /\ Len(delivered) = 1
  /\ delivered[1].src = WS
  /\ delivered[1].ev.type = Disconnected

C7_CloseStep ==
  lastOp'.op = "close" =>
    /\ ~socketOpenTimeout' /\ ~socketTimer'
    /\ currentConnection' = None
    /\ currentConnection = WS => wsDisconnected'
    /\ currentConnection = HTTP => http'.disconnected
    /\ currentConnection = None => UNCHANGED <<scVars, httpVars>>

C7_Closed ==
  (currentConnection = None /\ lastOp'.op # "start") =>
    /\ currentConnection' = None
    /\ ~socketOpenTimeout' /\ ~socketTimer'
    /\ delivered' = <<>>
    /\ switches' = 0
    /\ lastOp'.op = "send" =>
         UNCHANGED <<scVars, httpVars>> /\ posted' = <<>> /\ emitted' = <<>>

\* C7: close() leaves no open timeout pending, the transport that was
\* current closed and _currentConnection null; until start() is called
\* again, send changes nothing, no event of either transport is forwarded,
\* _startHttp does not run, and another close() changes nothing.
C7_CloseIsFinal ==
  /\ [](currentConnection = None => ~socketOpenTimeout /\ ~socketTimer)
  /\ [][C7_CloseStep /\ C7_Closed]_vars

\* after close(), a request of the closed fallback still emits
C7_Witness ==
  /\ currentConnection = None
  /\ Ran("openTimeout")
  /\ emitted # <<>>

(***************************************************************************)
(* Properties of BaseConnection (specification SpecBase)                   *)
(***************************************************************************)
C8_CallStep ==
  lastOp'.op = "setCloseTimeout" =>
    /\ IF ~conn.reconnectable \/ ~conn.open
       THEN lastRet' = "false" /\ closeTimers' = closeTimers
       ELSE lastRet' = "true"
    /\ closeTimers # {} => closeTimers' = closeTimers

\* C8: setCloseTimeout() returns false and arms nothing when the connection
\* is not reconnectable or not open, and returns true otherwise; a call
\* while a timeout is pending arms nothing, and at most one close timeout
\* is pending in every state.
C8_OneCloseTimeout ==
  [](Cardinality(closeTimers) <= 1) /\ [][C8_CallStep]_vars

\* a timeout is armed again after an earlier one was cleared
C8_Witness ==
  /\ Ran("setCloseTimeout")
  /\ lastRet = "true"
  /\ closeTimers = {conn.reconnectTimeoutId}
  /\ conn.reconnectTimeoutId > 1

(***************************************************************************)
(* Properties of the fallback state (specification Spec)                   *)
(***************************************************************************)
\* C11: every step that runs _startHttp leaves the primary closed and the
\* fallback started against the recorded id and token: not disconnected,
\* with the poll request of chain position 0 as its current request.
C11_FallbackStarted ==
  switches = 1 =>
    /\ currentConnection = HTTP
    /\ wsDisconnected
    /\ ~http.disconnected
    /\ http.httpUrl = <<serverId, serverToken>>
    /\ http.httpRequest = 0 /\ reqs[0].created

(***************************************************************************)
(* _handleStream on one snapshot (specification SpecStream)                *)
(***************************************************************************)
\* the offset of the last element of the lines of request 0
LastLine(rq) == Len(GetMessages(rq, 0)) - 1

\* the response text of request 0 ends in a newline
EndsInNewline(rq) ==
  LET text == ResponseText(rq, 0) IN text # <<>> /\ text[Len(text)] = NL

\* the offsets in seq
Offsets(seq) == {seq[i] : i \in DOMAIN seq}

\* every Message of the step was taken from the buffer, and the buffer got
\* k offsets pushed
OnlyBufferedEmitted(k) ==
  Len(reqs'[0].emittedAt) - Len(reqs[0].emittedAt) + Len(reqs'[0].buffer)
    = Len(reqs[0].buffer) + k

\* C12: a _handleStream call on a snapshot that does not end in a newline,
\* with index at the last line, does not parse or emit that line but pushes
\* its offset onto buffer; on a snapshot that ends in a newline the empty
\* final element is never pushed and never emitted.
C12_Step ==
  LET last == LastLine(reqs')
  IN /\ (~EndsInNewline(reqs') /\ reqs[0].index = last) =>
          /\ reqs'[0].index = last + 1
          /\ reqs'[0].buffer # <<>>
          /\ reqs'[0].buffer[Len(reqs'[0].buffer)] = last
          /\ last \notin Offsets(reqs'[0].emittedAt)
          /\ OnlyBufferedEmitted(1)
     /\ EndsInNewline(reqs') =>
          /\ last \notin Offsets(reqs'[0].buffer)
          /\ last \notin Offsets(reqs'[0].emittedAt)
          /\ reqs[0].index = last =>
               reqs'[0].index = last /\ OnlyBufferedEmitted(0)

C12_LastLine == [][C12_Step]_vars

\* a partial last line was buffered, and a later snapshot ended in a newline
\* with index at the empty final element
C12_Witness ==
  /\ Ran("snapshot")
  /\ EndsInNewline(reqs)
  /\ reqs[0].index = LastLine(reqs)
  /\ reqs[0].emittedAt # <<>>
  /\ reqs[0].buffer # <<>>

(***************************************************************************)
(* Failures of poll requests (specification Spec)                          *)
(***************************************************************************)
\* the fallback emitted Disconnected in the last step
HttpDisconnects ==
  {i \in DOMAIN emitted :
     emitted[i].src = HTTP /\ emitted[i].ev.type = Disconnected}

\* C13: a step in which issuing a poll request threw inside _startXhrStream
\* only logs the error: the fallback emits no Disconnected, and the idle
\* timeout is armed after the step, so that the next chain position follows.
C13_ThrowKeepsChain ==
  logged => HttpDisconnects = {} /\ http.timeout

\* the poll requests in flight: sent and neither finished nor aborted
InFlight == {n \in Positions : reqs[n].sent}

\* C14: at most two poll requests are in flight, and a predecessor is
\* retained in flight only while its successor is in flight on a running
\* transport: when the successor fails or the transport is closed the
\* predecessor is aborted too.
C14_PredecessorAborted ==
  /\ Cardinality(InFlight) <= 2
  /\ \A n \in Positions \ {0} :
       (reqs[n].prev /\ reqs[n - 1].sent) =>
         (reqs[n].sent /\ ~http.disconnected)

(***************************************************************************)
(* The firing of the close timeout (specification SpecBase)                *)
(***************************************************************************)
\* C15 as stated: a firing close timeout invokes close() only on a
\* connection that is reconnectable and open, and changes nothing otherwise.
C15_Step ==
  lastOp'.op = "closeTimeout" =>
    IF conn.reconnectable /\ conn.open
    THEN closeCalls' <= 1
    ELSE closeCalls' = 0 /\ conn' = conn

C15_ReconnectableAndOpen == [][C15_Step]_vars

\* C15, amended: a firing close timeout invokes close() exactly when the
\* connection is open at that moment, reconnectable or not; on a connection
\* that is no longer open it invokes nothing and changes no field.
C15_OpenStep ==
  lastOp'.op = "closeTimeout" =>
    IF conn.open
    THEN closeCalls' = 1 /\ ~conn'.open
    ELSE closeCalls' = 0 /\ conn' = conn

C15_ClosesIfOpen == [][C15_OpenStep]_vars

\* the timeout fired on an open connection that was no longer reconnectable
C15_Witness ==
  Ran("closeTimeout") /\ closeCalls = 1 /\ ~conn.reconnectable

\* C20: after a setCloseTimeout() that returned true, the close timeout the
\* connection's handle names is pending.
C20_TruePending ==
  (Ran("setCloseTimeout") /\ lastRet = "true") =>
    conn.reconnectTimeoutId \in closeTimers

(***************************************************************************)
(* The order of the emitted lines (specification SpecStream)               *)
(***************************************************************************)
\* seq is strictly increasing
Increasing(seq) == \A i, j \in DOMAIN seq : i < j => seq[i] < seq[j]

\* every line request 0 emitted lies before every offset it still buffers
NoneOvertaken(rq) ==
  \A b \in Offsets(rq[0].buffer) : \A e \in Offsets(rq[0].emittedAt) : e < b

\* C16 as stated: the offsets emitted are strictly increasing, and no line
\* with a higher offset is emitted while a lower offset is still buffered.
C16_NoOvertaking == Increasing(reqs[0].emittedAt) /\ NoneOvertaken(reqs)

\* the line at offset b of request 0 is complete and is not JSON
Malformed(rq, b) ==
  b < LastLine(rq) /\ ~JsonParses(At(GetMessages(rq, 0), b))

\* a line emitted after a buffered offset: that offset was, or lies behind,
\* a malformed line of the buffer
OvertakenOnlyMalformed(rq) ==
  \A i \in DOMAIN rq[0].buffer : \A e \in Offsets(rq[0].emittedAt) :
    e > rq[0].buffer[i] =>
      \E j \in 1 .. i : Malformed(rq, rq[0].buffer[j])

\* one _handleStream call: the lines it emits from the buffer are emitted
\* before its tail line, and a buffered offset that does not parse in the new
\* snapshot stays at the front of the buffer
C16_Step ==
  LET old == reqs[0].buffer
      new == reqs'[0].buffer
      fresh == SubSeq(reqs'[0].emittedAt, Len(reqs[0].emittedAt) + 1,
                      Len(reqs'[0].emittedAt))
  IN /\ Increasing(reqs'[0].emittedAt)
     /\ \A i, j \in DOMAIN fresh :
          (fresh[j] \in Offsets(old) /\ fresh[i] \notin Offsets(old)) => j < i
     /\ (old # <<>> /\ ~JsonParses(At(GetMessages(reqs', 0), Head(old)))) =>
          (new # <<>> /\ Head(new) = Head(old) /\ fresh \in {<<>>, <<reqs[0].index>>})
     /\ OvertakenOnlyMalformed(reqs')

\* C16, amended: the offsets emitted are strictly increasing, buffered lines
\* that parse are emitted before the tail line of the call, a buffered offset
\* that fails is put back at the front, and a line overtakes a buffered
\* offset only when a malformed line holds the front of the buffer.
C16_InOrder == [][C16_Step]_vars

\* a line was put back while another was emitted from the buffer earlier and
\* a tail line later
C16_Witness ==
  /\ Ran("snapshot")
  /\ Len(reqs[0].emittedAt) >= 2
  /\ reqs[0].buffer # <<>>
  /\ ~NoneOvertaken(reqs)

(***************************************************************************)
(* A failed poll request (specification Spec)                              *)
(***************************************************************************)
\* the step is the failure of a poll request: a request error, or an open
\* timeout that finds its request before header-received
PollFails ==
  \/ lastOp'.op = "xhrError"
  \/ lastOp'.op = "openTimeout" /\ reqs[lastOp'.arg].rs < 2

\* the Disconnected events of the fallback the listeners got in the last step
DeliveredHttpDisconnects ==
  {i \in DOMAIN delivered :
     delivered[i].src = HTTP /\ delivered[i].ev.type = Disconnected}

C17_FailStep ==
  PollFails =>
    /\ Cardinality(HttpDisconnects') = 1
    /\ ~http'.timeout
    /\ http'.httpRequest = http.httpRequest
    /\ currentConnection = HTTP =>
         /\ Cardinality(DeliveredHttpDisconnects') = 1
         /\ currentConnection' = HTTP
         /\ switches' = 0
         /\ wsDisconnected' = wsDisconnected
         /\ http'.disconnected = http.disconnected

\* a chain position is issued only by start on a fresh transport or by a
\* pending idle timeout, and only issuing one arms the idle timeout
C17_ChainStep ==
  /\ http'.httpRequest # http.httpRequest =>
       (http.timeout \/ http.httpRequest = NoPoll)
  /\ (http'.timeout /\ ~http.timeout) => http'.httpRequest # http.httpRequest

\* C17: the failure of a poll request makes the fallback emit Disconnected
\* once and cancels the idle timeout, after which no chain position is
\* issued; an authoritative fallback has the event forwarded to the
\* listeners, stays the current connection, and no transport is started.
C17_FailureSurfaces == [][C17_FailStep /\ C17_ChainStep]_vars

\* the open timeout of a request of the authoritative fallback failed it
C17_Witness ==
  /\ Ran("openTimeout")
  /\ currentConnection = HTTP
  /\ DeliveredHttpDisconnects # {}
  /\ ~http.timeout

(***************************************************************************)
(* HttpRequest.start (specification SpecHttp)                              *)
(***************************************************************************)
\* the requests constructed so far
Created(rq) == {n \in Positions : rq[n].created}

C18_Step ==
  lastOp'.op = "httpStart" =>
    IF ~http.disconnected
    THEN UNCHANGED httpVars /\ emitted' = <<>>
    ELSE IF http.httpRequest = NoPoll
         THEN /\ http'.id = lastOp'.arg
              /\ Len(http'.httpUrl) = 2 /\ http'.httpUrl[1] = lastOp'.arg
              /\ ~http'.disconnected
              /\ http'.httpRequest = 0
              /\ Created(reqs') = {0}
              /\ ~logged' => (reqs'[0].sent /\ reqs'[0].rs = 1)
         ELSE UNCHANGED httpVars /\ http'.disconnected /\ emitted' = <<>>

\* C18: start(id, token) changes nothing on a running transport; on a fresh
\* one it records the destination, constructs the one poll request of
\* position 0, sends it (unless the XMLHttpRequest throws) and clears the
\* disconnected flag; on a closed one it issues nothing and the transport
\* stays disconnected.
C18_StartOnce == [][C18_Step]_vars

\* start() was called on a transport that had run and was closed
C18_Witness ==
  /\ Ran("httpStart")
  /\ HttpClosed
  /\ reqs[0].created

(***************************************************************************)
(* The two transports of the channel (specification Spec)                  *)
(***************************************************************************)
\* C19: the primary Socket and the fallback HttpRequest are never both
\* running, and a running transport is the current connection.
C19_OneTransport ==
  /\ ~(~wsDisconnected /\ ~http.disconnected)
  /\ ~wsDisconnected => currentConnection = WS
  /\ ~http.disconnected => currentConnection = HTTP

\* start() took the channel back to the primary after the fallback had run
C19_Witness ==
  /\ Ran("start")
  /\ ~wsDisconnected
  /\ currentConnection = WS
  /\ HttpClosed

=============================================================================
